---- MODULE Spec2Model ----
(***************************************************************************)
(* A model of the Bubble Tea session controller of mcp-cli (src/main.go):  *)
(* the AppModel state, its Update handler for key and result messages,     *)
(* the callToolCmd / readResourceCmd commands that the runtime executes on *)
(* their own goroutines, and the View function.                            *)
(*                                                                         *)
(* Text is a sequence of one-character strings, so that typing, sorting    *)
(* and parsing are computed as the code computes them.                     *)
(***************************************************************************)
EXTENDS Integers, Sequences, FiniteSets, TLC

VARIABLES
    verbose,  \* the -v flag (package variable verbose)
    m,        \* the AppModel the program runs, a record of its fields
    fetched,  \* the listings initialModel asked the server for, in order
    cmds,     \* commands returned by Update whose goroutine has not run yet
    msgs,     \* messages produced by commands, not yet handed to Update
    nextId,   \* number of commands dispatched so far
    phase,    \* "running", "exited" (tea.Quit) or "crashed" (a panic)
    appending \* goroutines inside logf: m.log read, not yet assigned

vars == <<verbose, m, fetched, cmds, msgs, nextId, phase, appending>>

-----------------------------------------------------------------------------
(* Bounds of the model. Each specification explores the program with a    *)
(* server and a user: what the server holds and answers, how many commands *)
(* one run dispatches, how long the log grows, the texts the user types.   *)

\* Spec: commands dispatched in one run, entries of the diagnostic log
MaxDispatch == 1
MaxLog == 4
\* SpecPair: the same limits for a user who types nothing
PairDispatch == 2
PairLog == 4
\* the largest value AppModel.argFocus takes
MaxArgFocus == 3
\* SpecPane: entries of the diagnostic log, with and without -v
PaneLog == 6

\* the texts the user has in a field while typing
SessionTexts == {<<>>, <<"3">>}
\* the texts of the fields of a form when it is submitted, in SpecCoerce
CoerceTexts == {<<>>, <<"3">>, <<"4">>, <<"4", "2">>, <<"a", "b", "c">>, <<"t">>,
                <<"F", "A", "L", "S", "E">>}

\* a user and a server: the limits, the texts, the outcomes of a tools/call,
\* and whether the user scrolls the diagnostic pane
Env(dispatch, logged, texts, outcomes, scrolls) ==
    [dispatch |-> dispatch, log |-> logged, texts |-> texts,
     outcomes |-> outcomes, scrolls |-> scrolls]

-----------------------------------------------------------------------------
(* viewState and focusedPanel *)

toolSelectionView == "toolSelectionView"
argumentInputView == "argumentInputView"
resourceListView == "resourceListView"
resourceDetailView == "resourceDetailView"
promptListView == "promptListView"
\* the view of the first version of the program and of its documentation;
\* the viewState of main.go has no such value
resultView == "resultView"

viewState == {toolSelectionView, argumentInputView, resourceListView,
              resourceDetailView, promptListView}

mainPanelFocus == "mainPanelFocus"
debugPanelFocus == "debugPanelFocus"

NoErr == "nil"

-----------------------------------------------------------------------------
(* Text: characters, byte order, sort.Strings *)

\* the byte value of the characters the model uses
CharCode(c) ==
    CASE c = "0" -> 48 [] c = "1" -> 49 [] c = "2" -> 50 [] c = "3" -> 51
      [] c = "4" -> 52 [] c = "5" -> 53 [] c = "6" -> 54 [] c = "7" -> 55
      [] c = "8" -> 56 [] c = "9" -> 57
      [] c = "a" -> 97 [] c = "b" -> 98 [] c = "m" -> 109 [] c = "n" -> 110
      [] c = "o" -> 111 [] c = "p" -> 112 [] c = "r" -> 114 [] c = "s" -> 115
      [] c = "t" -> 116

\* Go's string order: bytewise, a proper prefix first
RECURSIVE LexLess(_, _)
LexLess(s, t) ==
    IF t = <<>> THEN FALSE
    ELSE IF s = <<>> THEN TRUE
    ELSE IF CharCode(Head(s)) # CharCode(Head(t))
         THEN CharCode(Head(s)) < CharCode(Head(t))
    ELSE LexLess(Tail(s), Tail(t))

\* x put at its place in the sorted sequence q
RECURSIVE InsertSorted(_, _)
InsertSorted(x, q) ==
    IF q = <<>> THEN <<x>>
    ELSE IF LexLess(x, Head(q)) THEN <<x>> \o q
    ELSE <<Head(q)>> \o InsertSorted(x, Tail(q))

RECURSIVE SortStringsFrom(_, _)
SortStringsFrom(q, acc) ==
    IF q = <<>> THEN acc ELSE SortStringsFrom(Tail(q), InsertSorted(Head(q), acc))

\* a mutant of SortStrings: the names stay in the order the map yielded them
SortStringsOmitted(q) == q

\* sort.Strings
SortStrings(q) == SortStringsFrom(q, <<>>)

\* the orders in which ranging over a Go map with key set S may yield the keys
MapOrders(S) ==
    {q \in [1..Cardinality(S) -> S] : \A x \in S : \E i \in DOMAIN q : q[i] = x}

-----------------------------------------------------------------------------
(* strconv *)

IsDigit(c) == c \in {"0", "1", "2", "3", "4", "5", "6", "7", "8", "9"}
DigitVal(c) == CharCode(c) - 48

RECURSIVE DecimalFrom(_, _)
DecimalFrom(s, acc) ==
    IF s = <<>> THEN acc ELSE DecimalFrom(Tail(s), 10 * acc + DigitVal(Head(s)))

\* texts of the model's characters hold no sign, point or exponent, so the
\* texts strconv.Atoi and strconv.ParseFloat accept are the digit strings
AllDigits(s) == s # <<>> /\ \A i \in DOMAIN s : IsDigit(s[i])

\* strconv.Atoi: err == nil, and the value
AtoiOk(s) == AllDigits(s)
Atoi(s) == DecimalFrom(s, 0)

\* strconv.ParseFloat(s, 64)
ParseFloatOk(s) == AllDigits(s)
ParseFloat(s) == DecimalFrom(s, 0)

\* strconv.ParseBool accepts 1, t, T, TRUE, true, True, 0, f, F, FALSE, false, False
BoolTrueTexts == {<<"1">>, <<"t">>, <<"T">>, <<"T","R","U","E">>,
                  <<"t","r","u","e">>, <<"T","r","u","e">>}
BoolFalseTexts == {<<"0">>, <<"f">>, <<"F">>, <<"F","A","L","S","E">>,
                   <<"f","a","l","s","e">>, <<"F","a","l","s","e">>}
ParseBoolOk(s) == s \in BoolTrueTexts \cup BoolFalseTexts
ParseBool(s) == s \in BoolTrueTexts

-----------------------------------------------------------------------------
(* Values of the argument mapping (Go's any) *)

StringValue(s) == [t |-> "string", str |-> s, num |-> 0, bool |-> FALSE]
FloatValue(n) == [t |-> "float64", str |-> <<>>, num |-> n, bool |-> FALSE]
IntValue(n) == [t |-> "int", str |-> <<>>, num |-> n, bool |-> FALSE]
BoolValue(b) == [t |-> "bool", str |-> <<>>, num |-> 0, bool |-> b]

\* a map[string]any as a set of entries with distinct names
MapHas(args, name) == \E e \in args : e.name = name
MapGet(args, name) == (CHOOSE e \in args : e.name = name).val
MapPut(args, name, v) ==
    {e \in args : e.name # name} \cup {[name |-> name, val |-> v]}
MapKeys(args) == {e.name : e \in args}

Range(q) == {q[i] : i \in DOMAIN q}

-----------------------------------------------------------------------------
(* The server: the listings it holds, and whether a listing fails *)

Prop(n, ty) == [name |-> n, Type |-> ty]
\* mcp.Tool: InputSchema is a pointer (nil when the server sent none)
Tool(n, isNil, props) ==
    [Name |-> n, InputSchema |-> [nil |-> isNil, Properties |-> props]]

ToolAdd == Tool("add", FALSE, {Prop(<<"b">>, "number"), Prop(<<"a">>, "number")})
ToolPing == Tool("ping", TRUE, {})
ToolNow == Tool("now", FALSE, {})
ToolConv == Tool("conv", FALSE, {Prop(<<"s">>, "string"), Prop(<<"o", "n">>, "boolean"),
                                 Prop(<<"n">>, "integer")})
ToolEcho == Tool("echo", FALSE, {Prop(<<"m">>, "")})

Resource(n, uri) == [Name |-> n, URI |-> uri]
Prompt(n) == [Name |-> n]

\* the scenario of the specification: a tool with two numbers, a tool without
\* a schema, a tool whose schema has no properties, a resource and a prompt
SessionCatalog ==
    [tools |-> <<ToolAdd, ToolPing, ToolNow>>,
     resources |-> <<Resource("readme", "file:///readme")>>,
     prompts |-> <<Prompt("greet")>>]
\* a server without tools
ResourceCatalog ==
    [tools |-> <<>>,
     resources |-> <<Resource("readme", "file:///readme"),
                     Resource("notes", "file:///notes")>>,
     prompts |-> <<Prompt("greet"), Prompt("review")>>]
\* tools whose parameters have every declared type
TypedCatalog ==
    [tools |-> <<ToolConv>>, resources |-> <<>>, prompts |-> <<>>]
AddCatalog ==
    [tools |-> <<ToolAdd>>, resources |-> <<>>, prompts |-> <<>>]
\* a tool whose parameter declares no type
EchoCatalog ==
    [tools |-> <<ToolEcho>>, resources |-> <<>>, prompts |-> <<>>]
\* forms of different lengths
FormsCatalog ==
    [tools |-> <<ToolAdd, ToolEcho>>, resources |-> <<>>, prompts |-> <<>>]

Catalogs ==
    {SessionCatalog, ResourceCatalog, TypedCatalog, AddCatalog, EchoCatalog, FormsCatalog}

\* what the server does at startup: its listings, and the listing that fails
Servers == [catalog : Catalogs, failAt : {"none", "tools", "prompts", "resources"}]

\* viewport.Model: the height of the pane and the first line shown
Viewport(h, y) == [Height |-> h, YOffset |-> y]

NoResult == [isError |-> FALSE, text |-> ""]

\* a mutant of initialModel: the session starts in the resource list
initialModelInResources(srv) ==
    LET zero ==
            \* the zero value of AppModel
            [state |-> resourceListView, focusedPanel |-> mainPanelFocus,
             toolList |-> 1, resourceList |-> 1, promptList |-> 1,
             argInputs |-> <<>>, argOrder |-> <<>>, argFocus |-> 0,
             selectedTool |-> 0, tools |-> <<>>, resources |-> <<>>,
             prompts |-> <<>>, selectedResource |-> 0,
             result |-> NoResult, resourceResult |-> NoResult, err |-> NoErr,
             log |-> <<>>, debugViewport |-> Viewport(0, 0)]
    IN  IF srv.failAt = "tools" THEN [zero EXCEPT !.err = "tools/list failed"]
        ELSE IF srv.failAt = "prompts" THEN [zero EXCEPT !.err = "prompts/list failed"]
        ELSE IF srv.failAt = "resources"
             THEN [zero EXCEPT !.err = "resources/list failed"]
        ELSE [zero EXCEPT !.tools = srv.catalog.tools,
                          !.resources = srv.catalog.resources,
                          !.prompts = srv.catalog.prompts,
                          !.debugViewport = Viewport(1, 0)]

\* a mutant of initialModel: the listings fetched before the failure are kept
initialModelKeepsListed(srv) ==
    LET zero ==
            \* the zero value of AppModel
            [state |-> toolSelectionView, focusedPanel |-> mainPanelFocus,
             toolList |-> 1, resourceList |-> 1, promptList |-> 1,
             argInputs |-> <<>>, argOrder |-> <<>>, argFocus |-> 0,
             selectedTool |-> 0, tools |-> <<>>, resources |-> <<>>,
             prompts |-> <<>>, selectedResource |-> 0,
             result |-> NoResult, resourceResult |-> NoResult, err |-> NoErr,
             log |-> <<>>, debugViewport |-> Viewport(0, 0)]
    IN  IF srv.failAt = "tools" THEN [zero EXCEPT !.err = "tools/list failed"]
        ELSE IF srv.failAt = "prompts" THEN [zero EXCEPT !.err = "prompts/list failed"]
        ELSE IF srv.failAt = "resources"
             THEN [zero EXCEPT !.err = "resources/list failed",
                               !.tools = srv.catalog.tools,
                               !.prompts = srv.catalog.prompts]
        ELSE [zero EXCEPT !.tools = srv.catalog.tools,
                          !.resources = srv.catalog.resources,
                          !.prompts = srv.catalog.prompts,
                          !.debugViewport = Viewport(1, 0)]

\* initialModel: the AppModel it returns
initialModel(srv) ==
    LET zero ==
            \* the zero value of AppModel
            [state |-> toolSelectionView, focusedPanel |-> mainPanelFocus,
             toolList |-> 1, resourceList |-> 1, promptList |-> 1,
             argInputs |-> <<>>, argOrder |-> <<>>, argFocus |-> 0,
             selectedTool |-> 0, tools |-> <<>>, resources |-> <<>>,
             prompts |-> <<>>, selectedResource |-> 0,
             result |-> NoResult, resourceResult |-> NoResult, err |-> NoErr,
             log |-> <<>>, debugViewport |-> Viewport(0, 0)]
    IN  IF srv.failAt = "tools" THEN [zero EXCEPT !.err = "tools/list failed"]
        ELSE IF srv.failAt = "prompts" THEN [zero EXCEPT !.err = "prompts/list failed"]
        ELSE IF srv.failAt = "resources"
             THEN [zero EXCEPT !.err = "resources/list failed"]
        ELSE [zero EXCEPT !.tools = srv.catalog.tools,
                          !.resources = srv.catalog.resources,
                          !.prompts = srv.catalog.prompts,
                          !.debugViewport = Viewport(1, 0)]

\* a listing initialModel requested, and whether the iteration gave an error
Fetch(listing, failed) == [listing |-> listing, failed |-> failed]

\* the listings initialModel requests before it returns
initialFetches(srv) ==
    IF srv.failAt = "tools" THEN <<Fetch("tools", TRUE)>>
    ELSE IF srv.failAt = "prompts"
    THEN <<Fetch("tools", FALSE), Fetch("prompts", TRUE)>>
    ELSE <<Fetch("tools", FALSE), Fetch("prompts", FALSE),
           Fetch("resources", srv.failAt = "resources")>>

\* the program after handleSession built its model, for one of the servers
\* and one of the settings of the -v flag
InitOf(servers, flags) ==
    \E srv \in servers :
        /\ verbose \in flags
        /\ m = initialModel(srv)
        /\ fetched = initialFetches(srv)
        /\ cmds = {}
        /\ msgs = {}
        /\ nextId = 0
        /\ phase = "running"
        /\ appending = {}

-----------------------------------------------------------------------------
(* The diagnostic log and its viewport *)

\* an entry of AppModel.log: what logf formatted
Entry(kind) == [kind |-> kind, tool |-> "", args |-> {}, name |-> <<>>, res |-> NoResult]
KeyPressedEntry == Entry("Key pressed")
StateChangeEntry == Entry("State change: toolSelectionView -> argumentInputView")
NoArgumentsEntry == Entry("No arguments needed, calling tool directly")
LastArgumentEntry == Entry("Last argument input, calling tool")
ToolResultReceivedEntry == Entry("Tool result received")
ResourceResultReceivedEntry == Entry("Resource result received")
ResultEntry(r) == [Entry("Result") EXCEPT !.res = r]
CallingToolEntry(toolName, args) ==
    [Entry("Calling tool") EXCEPT !.tool = toolName, !.args = args]
ConvertErrorEntry(n, ty) ==
    [Entry("Error converting arg") EXCEPT !.name = n, !.tool = ty]

\* the lines an entry takes in the pane: json.MarshalIndent puts an empty map
\* on one line and every key of a non-empty one on a line of its own
EntryLines(e) ==
    IF e.kind = "Calling tool"
    THEN 2 + (IF e.args = {} THEN 1 ELSE 2 + Cardinality(e.args))
    ELSE IF e.kind = "Result"
    THEN 2 + (IF e.res.isError THEN 2 ELSE 1)
    ELSE 1

RECURSIVE TotalLines(_)
TotalLines(lg) == IF lg = <<>> THEN 0 ELSE EntryLines(Head(lg)) + TotalLines(Tail(lg))

Max(a, b) == IF a > b THEN a ELSE b

\* viewport.GotoBottom over the joined log
GotoBottom(vp, lg) == [vp EXCEPT !.YOffset = Max(0, TotalLines(lg) - vp.Height)]

\* a mutant of logf: the new entry replaces the newest one
logfOverwrite(model, entry) ==
    LET lg == IF model.log = <<>> THEN <<entry>>
              ELSE SubSeq(model.log, 1, Len(model.log) - 1) \o <<entry>>
    IN  [model EXCEPT !.log = lg, !.debugViewport = GotoBottom(@, lg)]

\* AppModel.logf
logf(model, entry) ==
    LET lg == Append(model.log, entry)
    IN  [model EXCEPT !.log = lg, !.debugViewport = GotoBottom(@, lg)]

\* if verbose { m.logf(...) }
vlogf(model, entry) == IF verbose THEN logf(model, entry) ELSE model

\* the lines of the pane's content: a placeholder line until the first logf
ContentLines(model) == IF model.log = <<>> THEN 1 ELSE TotalLines(model.log)

\* viewport.Update for a key: up and down scroll by a line within the content
viewportUpdate(vp, lines, key) ==
    IF key = "down" /\ vp.YOffset < Max(0, lines - vp.Height)
    THEN [vp EXCEPT !.YOffset = @ + 1]
    ELSE IF key = "up" /\ vp.YOffset > 0
    THEN [vp EXCEPT !.YOffset = @ - 1]
    ELSE vp

-----------------------------------------------------------------------------
(* bubbles list and textinput *)

\* list.Model.Update for a key: the index of the selected item
listUpdate(index, n, key) ==
    IF key = "down" /\ index < n THEN index + 1
    ELSE IF key = "up" /\ index > 1 THEN index - 1
    ELSE index

\* ti.CharLimit
CharLimit == 256

\* the keys that are no character
SpecialKeys == {"tab", "esc", "ctrl+c", "enter", "up", "down"}

\* textinput.New(): empty and blurred
NewInput == [value |-> <<>>, focus |-> FALSE]
Focus(ti) == [ti EXCEPT !.focus = TRUE]
Blur(ti) == [ti EXCEPT !.focus = FALSE]

\* textinput.Model.Update for a key: a blurred input ignores it
textinputUpdate(ti, key) ==
    IF ti.focus /\ key \notin SpecialKeys /\ Len(ti.value) < CharLimit
    THEN [ti EXCEPT !.value = Append(@, key)]
    ELSE ti

-----------------------------------------------------------------------------
(* Update *)

\* what a handler returns: the model, the command, or a panic
Ret(model, cmd) == [m |-> model, cmd |-> cmd, panic |-> FALSE]
Panic(model) == [m |-> model, cmd |-> "nil", panic |-> TRUE]

PropNames(tool) == {p.name : p \in tool.InputSchema.Properties}

\* the fields built for the names in order: each is created focused
BuildInputs(order) == [i \in 1..Len(order) |-> Focus(NewInput)]

\* a mutant of FocusOnly: the inputs keep their focus flags
FocusOnlyOmitted(inputs, focus) == inputs

\* the loop that focuses input number focus (0-based) and blurs the others
FocusOnly(inputs, focus) ==
    [i \in 1..Len(inputs) |-> IF i - 1 = focus THEN Focus(inputs[i]) ELSE Blur(inputs[i])]

\* a mutant of callTool: no command is returned
callToolOmitted(model) == Ret(model, "nil")

\* AppModel.callTool
callTool(model) == Ret(model, "callToolCmd")

\* AppModel.updateToolSelectionView for a key; order is the order in which
\* ranging over the Properties map yields the names
updateToolSelectionView(model, key, order) ==
    LET m1 == [model EXCEPT !.toolList = listUpdate(@, Len(model.tools), key)] IN
    IF key = "r" THEN Ret([m1 EXCEPT !.state = resourceListView], "nil")
    ELSE IF key = "p" THEN Ret([m1 EXCEPT !.state = promptListView], "nil")
    ELSE IF key = "enter" THEN
        IF m1.tools = <<>>
        THEN Panic(m1)   \* SelectedItem() is nil: the type assertion panics
        ELSE
          LET m2 == [m1 EXCEPT !.selectedTool = m1.toolList]
              tool == m2.tools[m2.selectedTool]
          IN  IF ~tool.InputSchema.nil /\ tool.InputSchema.Properties # {}
              THEN LET m3 == vlogf(m2, StateChangeEntry)
                       names == SortStrings(order)
                   IN  Ret([m3 EXCEPT !.state = argumentInputView,
                                      !.argOrder = names,
                                      !.argInputs = BuildInputs(names)], "nil")
              ELSE callTool(vlogf(m2, NoArgumentsEntry))
    ELSE Ret(m1, "nil")

\* a mutant of updatePromptListView: both keys lead to the tools
updatePromptListViewToTools(model, key) ==
    LET m1 == [model EXCEPT !.promptList = listUpdate(@, Len(model.prompts), key)] IN
    IF key \in {"t", "r"} THEN Ret([m1 EXCEPT !.state = toolSelectionView], "nil")
    ELSE Ret(m1, "nil")

\* a mutant of updatePromptListView: Enter is handled as in the resource list
updatePromptListViewReads(model, key) ==
    LET m1 == [model EXCEPT !.promptList = listUpdate(@, Len(model.prompts), key)] IN
    IF key = "t" THEN Ret([m1 EXCEPT !.state = toolSelectionView], "nil")
    ELSE IF key = "r" THEN Ret([m1 EXCEPT !.state = resourceListView], "nil")
    ELSE IF key = "enter" /\ m1.resources # <<>>
    THEN Ret([m1 EXCEPT !.selectedResource = m1.resourceList], "readResourceCmd")
    ELSE Ret(m1, "nil")

\* AppModel.updatePromptListView for a key
updatePromptListView(model, key) ==
    LET m1 == [model EXCEPT !.promptList = listUpdate(@, Len(model.prompts), key)] IN
    IF key = "t" THEN Ret([m1 EXCEPT !.state = toolSelectionView], "nil")
    ELSE IF key = "r" THEN Ret([m1 EXCEPT !.state = resourceListView], "nil")
    ELSE Ret(m1, "nil")

\* a mutant of updateResourceListView: Enter does not record the resource
updateResourceListViewUnrecorded(model, key) ==
    LET m1 == [model EXCEPT !.resourceList = listUpdate(@, Len(model.resources), key)] IN
    IF key = "t" THEN Ret([m1 EXCEPT !.state = toolSelectionView], "nil")
    ELSE IF key = "p" THEN Ret([m1 EXCEPT !.state = promptListView], "nil")
    ELSE IF key = "enter" THEN
        IF m1.resources = <<>>
        THEN Panic(m1)
        ELSE Ret([m1 EXCEPT !.state = resourceDetailView], "readResourceCmd")
    ELSE Ret(m1, "nil")

\* AppModel.updateResourceListView for a key
updateResourceListView(model, key) ==
    LET m1 == [model EXCEPT !.resourceList = listUpdate(@, Len(model.resources), key)] IN
    IF key = "t" THEN Ret([m1 EXCEPT !.state = toolSelectionView], "nil")
    ELSE IF key = "p" THEN Ret([m1 EXCEPT !.state = promptListView], "nil")
    ELSE IF key = "enter" THEN
        IF m1.resources = <<>>
        THEN Panic(m1)   \* SelectedItem() is nil: the type assertion panics
        ELSE Ret([m1 EXCEPT !.selectedResource = m1.resourceList,
                            !.state = resourceDetailView], "readResourceCmd")
    ELSE Ret(m1, "nil")

\* a mutant of OnLastField: the comparison is off by one
OnLastFieldOffByOne(model) == model.argFocus = Len(model.argInputs)

\* m.argFocus == len(m.argInputs)-1
OnLastField(model) == model.argFocus = Len(model.argInputs) - 1

\* AppModel.updateArgumentInputView for a key
updateArgumentInputView(model, key) ==
    IF key = "enter" THEN
        IF OnLastField(model)
        THEN callTool(vlogf(model, LastArgumentEntry))
        ELSE LET f == model.argFocus + 1
             IN  Ret([model EXCEPT !.argFocus = f,
                                   !.argInputs = FocusOnly(@, f)], "nil")
    ELSE IF key = "tab" THEN
        IF model.argInputs = <<>>
        THEN Panic(model)   \* integer divide by zero
        ELSE LET f == (model.argFocus + 1) % Len(model.argInputs)
             IN  Ret([model EXCEPT !.argFocus = f,
                                   !.argInputs = FocusOnly(@, f)], "nil")
    ELSE IF model.argFocus >= Len(model.argInputs)
    THEN Panic(model)   \* index out of range
    ELSE Ret([model EXCEPT !.argInputs[model.argFocus + 1] = textinputUpdate(@, key)],
             "nil")

\* a request as the server receives it; none for a message that is no answer
Request(method, name, args) == [method |-> method, name |-> name, args |-> args]
NoRequest == Request("", "", {})

\* messages; id and req tell which command produced a result message and the
\* request it had sent (they are no fields of the program's messages)
Msg(type) == [type |-> type, key |-> "", height |-> 0, id |-> 0, req |-> NoRequest,
              err |-> NoErr, result |-> NoResult]
KeyMsg(k) == [Msg("KeyMsg") EXCEPT !.key = k]
WindowSizeMsg(h) == [Msg("WindowSizeMsg") EXCEPT !.height = h]
ToolResultMsg(id, req, e, r) ==
    [Msg("toolResult") EXCEPT !.id = id, !.req = req, !.err = e, !.result = r]
ResourceResultMsg(id, req, e, r) ==
    [Msg("resourceResult") EXCEPT !.id = id, !.req = req, !.err = e, !.result = r]

\* a mutant of onToolResult: the result is stored without a log entry
onToolResultUnlogged(model, msg) ==
    IF msg.err # NoErr THEN Ret([model EXCEPT !.err = msg.err], "nil")
    ELSE Ret([model EXCEPT !.result = msg.result], "nil")

\* Update, case toolResult
onToolResult(model, msg) ==
    IF msg.err # NoErr THEN Ret([model EXCEPT !.err = msg.err], "nil")
    ELSE LET m1 == vlogf(model, ToolResultReceivedEntry)
             m2 == logf(m1, ResultEntry(msg.result))
         IN  Ret([m2 EXCEPT !.result = msg.result], "nil")

\* a mutant of onResourceResult: a failed read is dropped
onResourceResultDropsErr(model, msg) ==
    IF msg.err # NoErr THEN Ret(model, "nil")
    ELSE Ret([model EXCEPT !.resourceResult = msg.result], "nil")

\* Update, case resourceResult
onResourceResult(model, msg) ==
    IF msg.err # NoErr THEN Ret([model EXCEPT !.err = msg.err], "nil")
    ELSE LET m1 == vlogf(model, ResourceResultReceivedEntry)
         IN  Ret([m1 EXCEPT !.resourceResult = msg.result], "nil")

\* a mutant of onEsc: every view returns to the tool list
onEscToTools(model) == Ret([model EXCEPT !.state = toolSelectionView], "nil")

\* a mutant of onEsc: leaving a view dismisses the error
onEscClearsErr(model) ==
    IF model.state = resourceDetailView
    THEN Ret([model EXCEPT !.state = resourceListView, !.err = NoErr], "nil")
    ELSE Ret([model EXCEPT !.state = toolSelectionView, !.err = NoErr], "nil")

\* a mutant of onEsc: the return to the lists empties the resources
onEscDropsResources(model) ==
    Ret([model EXCEPT !.resources = <<>>,
                      !.state = IF @ = resourceDetailView THEN resourceListView
                                ELSE toolSelectionView], "nil")

\* Update, case tea.KeyEsc
onEsc(model) ==
    IF model.state = resourceDetailView
    THEN Ret([model EXCEPT !.state = resourceListView], "nil")
    ELSE Ret([model EXCEPT !.state = toolSelectionView], "nil")

\* a mutant of onTab: Tab always gives the debug panel the focus
onTabToDebug(model) == Ret([model EXCEPT !.focusedPanel = debugPanelFocus], "nil")

\* Update, case tea.KeyTab
onTab(model) ==
    IF model.focusedPanel = mainPanelFocus
    THEN Ret([model EXCEPT !.focusedPanel = debugPanelFocus], "nil")
    ELSE Ret([model EXCEPT !.focusedPanel = mainPanelFocus], "nil")

\* a mutant of onCtrlC: the key quits only from the main panel
onCtrlCFromMain(model) ==
    IF model.focusedPanel = mainPanelFocus THEN Ret(model, "Quit")
    ELSE Ret(model, "nil")

\* Update, case tea.KeyCtrlC
onCtrlC(model) == Ret(model, "Quit")

\* a mutant of delegate: the active view receives the key whatever the focus
delegateToView(model, key, order) ==
    IF model.state = toolSelectionView
    THEN updateToolSelectionView(model, key, order)
    ELSE IF model.state = resourceListView THEN updateResourceListView(model, key)
    ELSE IF model.state = promptListView THEN updatePromptListView(model, key)
    ELSE IF model.state = argumentInputView THEN updateArgumentInputView(model, key)
    ELSE Ret(model, "nil")

\* Update, after the global keys: the focused panel, then the active view
delegate(model, key, order) ==
    IF model.focusedPanel = debugPanelFocus
    THEN Ret([model EXCEPT !.debugViewport =
                               viewportUpdate(@, ContentLines(model), key)], "nil")
    ELSE IF model.state = toolSelectionView
    THEN updateToolSelectionView(model, key, order)
    ELSE IF model.state = resourceListView THEN updateResourceListView(model, key)
    ELSE IF model.state = promptListView THEN updatePromptListView(model, key)
    ELSE IF model.state = argumentInputView THEN updateArgumentInputView(model, key)
    ELSE Ret(model, "nil")

\* AppModel.Update; order is the order in which Go ranges over the Properties
\* of the tool under the cursor, should the handler build a form
Update(model, msg, order) ==
    IF msg.type = "WindowSizeMsg"
    THEN Ret([model EXCEPT !.debugViewport.Height = msg.height - 2], "nil")
    ELSE IF msg.type = "toolResult" THEN onToolResult(model, msg)
    ELSE IF msg.type = "resourceResult" THEN onResourceResult(model, msg)
    ELSE LET m1 == vlogf(model, KeyPressedEntry) IN
         IF msg.key = "tab" THEN onTab(m1)
         ELSE IF msg.key = "esc" THEN onEsc(m1)
         ELSE IF msg.key = "ctrl+c" THEN onCtrlC(m1)
         ELSE delegate(m1, msg.key, order)

-----------------------------------------------------------------------------
(* View *)

\* AppModel.View: the frame, as the parts the panes are rendered from
View(model) ==
    IF model.err # NoErr
    THEN [error |-> model.err, main |-> "", title |-> "", body |-> NoResult,
          fields |-> <<>>, debug |-> <<>>, focused |-> ""]
    ELSE LET frame == [error |-> NoErr, main |-> model.state, title |-> "",
                       body |-> NoResult, fields |-> <<>>,
                       debug |-> model.log, focused |-> model.focusedPanel]
         IN  IF model.state = resourceDetailView
             THEN [frame EXCEPT !.title = model.resources[model.selectedResource].Name,
                                !.body = model.resourceResult]
             ELSE IF model.state = argumentInputView
             THEN [frame EXCEPT !.title = model.tools[model.selectedTool].Name,
                                !.fields = [i \in 1..Len(model.argOrder) |->
                                              [name |-> model.argOrder[i],
                                               input |-> model.argInputs[i]]]]
             ELSE frame

-----------------------------------------------------------------------------
(* The commands, run by the runtime on a goroutine of their own. Both are  *)
(* closures over the *AppModel: they read its fields when they run.        *)

HasProp(tool, n) == \E p \in tool.InputSchema.Properties : p.name = n
PropType(tool, n) == (CHOOSE p \in tool.InputSchema.Properties : p.name = n).Type

\* a mutant of CoerceField: the text is sent as it was typed
CoerceFieldUnparsed(ty, valueStr) ==
    [put |-> TRUE, val |-> StringValue(valueStr), warn |-> FALSE]

\* a mutant of CoerceField: a text that does not parse is left out silently
CoerceFieldSilent(ty, valueStr) ==
    IF ty = "number" /\ ParseFloatOk(valueStr)
    THEN [put |-> TRUE, val |-> FloatValue(ParseFloat(valueStr)), warn |-> FALSE]
    ELSE IF ty = "integer" /\ AtoiOk(valueStr)
    THEN [put |-> TRUE, val |-> IntValue(Atoi(valueStr)), warn |-> FALSE]
    ELSE IF ty = "boolean" /\ ParseBoolOk(valueStr)
    THEN [put |-> TRUE, val |-> BoolValue(ParseBool(valueStr)), warn |-> FALSE]
    ELSE [put |-> ty \notin {"number", "integer", "boolean"},
          val |-> StringValue(valueStr), warn |-> FALSE]

\* a mutant of CoerceField: a text that does not parse is sent as the zero
\* value of the declared type
CoerceFieldZeroOnFailure(ty, valueStr) ==
    IF ty = "number" THEN
        IF valueStr = <<>> THEN [put |-> FALSE, val |-> IntValue(0), warn |-> FALSE]
        ELSE IF ParseFloatOk(valueStr)
        THEN [put |-> TRUE, val |-> FloatValue(ParseFloat(valueStr)), warn |-> FALSE]
        ELSE [put |-> TRUE, val |-> FloatValue(0), warn |-> TRUE]
    ELSE IF ty = "integer" THEN
        IF valueStr = <<>> THEN [put |-> FALSE, val |-> IntValue(0), warn |-> FALSE]
        ELSE IF AtoiOk(valueStr)
        THEN [put |-> TRUE, val |-> IntValue(Atoi(valueStr)), warn |-> FALSE]
        ELSE [put |-> TRUE, val |-> IntValue(0), warn |-> TRUE]
    ELSE IF ty = "boolean" THEN
        IF valueStr = <<>> THEN [put |-> FALSE, val |-> BoolValue(FALSE), warn |-> FALSE]
        ELSE IF ParseBoolOk(valueStr)
        THEN [put |-> TRUE, val |-> BoolValue(ParseBool(valueStr)), warn |-> FALSE]
        ELSE [put |-> TRUE, val |-> BoolValue(FALSE), warn |-> TRUE]
    ELSE [put |-> TRUE, val |-> StringValue(valueStr), warn |-> FALSE]

\* callToolCmd, the switch on prop.Type for one field: whether the loop
\* reaches args[name] = finalValue (put), finalValue, and whether it logs
CoerceField(ty, valueStr) ==
    IF ty = "number" THEN
        IF valueStr = <<>> THEN [put |-> FALSE, val |-> IntValue(0), warn |-> FALSE]
        ELSE IF ParseFloatOk(valueStr)
        THEN [put |-> TRUE, val |-> FloatValue(ParseFloat(valueStr)), warn |-> FALSE]
        ELSE [put |-> TRUE, val |-> StringValue(valueStr), warn |-> TRUE]
    ELSE IF ty = "integer" THEN
        IF valueStr = <<>> THEN [put |-> FALSE, val |-> IntValue(0), warn |-> FALSE]
        ELSE IF AtoiOk(valueStr)
        THEN [put |-> TRUE, val |-> IntValue(Atoi(valueStr)), warn |-> FALSE]
        ELSE [put |-> TRUE, val |-> StringValue(valueStr), warn |-> TRUE]
    ELSE IF ty = "boolean" THEN
        IF valueStr = <<>> THEN [put |-> FALSE, val |-> BoolValue(FALSE), warn |-> FALSE]
        ELSE IF ParseBoolOk(valueStr)
        THEN [put |-> TRUE, val |-> BoolValue(ParseBool(valueStr)), warn |-> FALSE]
        ELSE [put |-> TRUE, val |-> StringValue(valueStr), warn |-> TRUE]
    ELSE [put |-> TRUE, val |-> StringValue(valueStr), warn |-> FALSE]

\* callToolCmd, the loop over argOrder from field i on: the mapping built and
\* the model with the conversion errors logged
RECURSIVE coerceFrom(_, _, _)
coerceFrom(model, i, args) ==
    IF i > Len(model.argOrder) THEN [m |-> model, args |-> args]
    ELSE LET name == model.argOrder[i]
             valueStr == model.argInputs[i].value
             tool == model.tools[model.selectedTool]
         IN  IF HasProp(tool, name)
             THEN LET c == CoerceField(PropType(tool, name), valueStr)
                      m1 == IF c.warn
                            THEN logf(model, ConvertErrorEntry(name, PropType(tool, name)))
                            ELSE model
                  IN  coerceFrom(m1, i + 1,
                                 IF c.put THEN MapPut(args, name, c.val) ELSE args)
             ELSE coerceFrom(model, i + 1, MapPut(args, name, StringValue(valueStr)))

\* the outcomes of session.CallTool and session.ReadResource
CallOutcomes == {"ok", "isError", "err"}
ReadOutcomes == {"ok", "err"}

\* what running a command gives: the model it wrote to and the message it
\* returns, or a panic
Ran(model, msg) == [m |-> model, msgs |-> {msg}, panic |-> FALSE]
RanPanic(model) == [m |-> model, msgs |-> {}, panic |-> TRUE]

\* the function callToolCmd returns, run as command id with the given
\* outcome of the remote call
callToolCmd(model, id, outcome) ==
    LET tool == model.tools[model.selectedTool] IN
    IF model.argOrder # <<>> /\ tool.InputSchema.nil
    THEN RanPanic(model)   \* m.selectedTool.InputSchema.Properties: nil pointer
    ELSE LET c == coerceFrom(model, 1, {})
             m1 == logf(c.m, CallingToolEntry(tool.Name, c.args))
             req == Request("tools/call", tool.Name, c.args)
         IN  IF outcome = "err"
             THEN Ran(m1, ToolResultMsg(id, req, "tools/call failed", NoResult))
             ELSE Ran(m1, ToolResultMsg(id, req, NoErr,
                                        [isError |-> outcome = "isError",
                                         text |-> tool.Name]))

\* the function readResourceCmd returns
readResourceCmd(model, id, outcome) ==
    LET uri == model.resources[model.selectedResource].URI
        req == Request("resources/read", uri, {})
    IN  IF outcome = "err"
        THEN Ran(model, ResourceResultMsg(id, req, "resources/read failed", NoResult))
        ELSE Ran(model, ResourceResultMsg(id, req, NoErr,
                                          [isError |-> FALSE, text |-> uri]))

-----------------------------------------------------------------------------
(* The runtime: it hands Update one message at a time, runs each command   *)
(* Update returns on a goroutine, and feeds the message a command returns  *)
(* back to Update.                                                         *)

\* the characters the user types
Runes == {"3", "t", "r", "p"}

\* the keys the user presses
Keys == SpecialKeys \cup Runes

\* the terminal heights of tea.WindowSizeMsg
WinHeights == {4}

Alive == phase = "running"

\* the limits of the run on a model value
WithinBounds(model, lim) ==
    /\ Len(model.log) <= lim.log
    /\ \A i \in DOMAIN model.argInputs : model.argInputs[i].value \in lim.texts
    /\ model.argFocus <= MaxArgFocus

\* a command waiting for its goroutine; view is the view Update was in when
\* it returned the command (no field of the program)
Cmd(id, kind, view) == [id |-> id, kind |-> kind, view |-> view]

\* the orders in which Update may range over the Properties map for this key
Orders(model, k) ==
    IF /\ k = "enter"
       /\ model.focusedPanel = mainPanelFocus
       /\ model.state = toolSelectionView
       /\ model.tools # <<>>
    THEN MapOrders(PropNames(model.tools[model.toolList]))
    ELSE {<<>>}

\* the process ends: its memory, its goroutines and their messages are gone
Ended(how) ==
    /\ phase' = how
    /\ m' = initialModel([catalog |-> ResourceCatalog, failAt |-> "tools"])
    /\ cmds' = {}
    /\ msgs' = {}
    /\ nextId' = 0
    /\ appending' = {}

\* the runtime takes what Update returned: the model, and the command.
\* tea.Quit makes the runtime leave its loop.
Returned(r, lim) ==
    IF r.panic THEN Ended("crashed")
    ELSE IF r.cmd = "Quit" THEN Ended("exited")
    ELSE /\ WithinBounds(r.m, lim)
         /\ m' = r.m
         /\ msgs' = msgs
         /\ appending' = appending
         /\ IF r.cmd = "nil"
            THEN UNCHANGED <<cmds, nextId, phase>>
            ELSE /\ nextId < lim.dispatch
                 /\ nextId' = nextId + 1
                 /\ cmds' = cmds \cup {Cmd(nextId + 1, r.cmd, m.state)}
                 /\ UNCHANGED phase

\* a key is pressed: Update(tea.KeyMsg)
KeyPress(k, lim) ==
    /\ Alive
    /\ (m.focusedPanel = debugPanelFocus /\ k \in {"up", "down"}) => lim.scrolls
    /\ \E order \in Orders(m, k) : Returned(Update(m, KeyMsg(k), order), lim)
    /\ UNCHANGED <<verbose, fetched>>

\* the terminal is resized: Update(tea.WindowSizeMsg)
WindowResize(h, lim) ==
    /\ Alive
    /\ Returned(Update(m, WindowSizeMsg(h), <<>>), lim)
    /\ UNCHANGED <<verbose, fetched>>

\* the runtime takes what a command did
Completed(c, r, lim) ==
    IF r.panic THEN Ended("crashed")
    ELSE /\ WithinBounds(r.m, lim)
         /\ m' = r.m
         /\ cmds' = cmds \ {c}
         /\ msgs' = msgs \cup r.msgs
         /\ UNCHANGED <<nextId, phase, appending>>

\* the goroutine of a callToolCmd command runs
RunCallTool(c, lim) ==
    /\ Alive
    /\ c.kind = "callToolCmd"
    /\ \E outcome \in lim.outcomes : Completed(c, callToolCmd(m, c.id, outcome), lim)
    /\ UNCHANGED <<verbose, fetched>>

\* the goroutine of a readResourceCmd command runs
RunReadResource(c, lim) ==
    /\ Alive
    /\ c.kind = "readResourceCmd"
    /\ \E outcome \in ReadOutcomes : Completed(c, readResourceCmd(m, c.id, outcome), lim)
    /\ UNCHANGED <<verbose, fetched>>

\* the message of a command reaches Update
Deliver(msg, lim) ==
    /\ Alive
    /\ msgs' = msgs \ {msg}
    /\ LET r == Update(m, msg, <<>>) IN
         /\ WithinBounds(r.m, lim)
         /\ m' = r.m
         /\ IF r.cmd = "nil"
            THEN UNCHANGED <<cmds, nextId>>
            ELSE /\ nextId < lim.dispatch
                 /\ nextId' = nextId + 1
                 /\ cmds' = cmds \cup {Cmd(nextId + 1, r.cmd, m.state)}
    /\ UNCHANGED <<verbose, fetched, phase, appending>>

\* the steps of a session with a server that has no resources
ToolNext(lim) ==
    \/ \E k \in Keys : KeyPress(k, lim)
    \/ \E c \in cmds : RunCallTool(c, lim)
    \/ \E msg \in msgs : Deliver(msg, lim)

Server(catalog) == [catalog |-> catalog, failAt |-> "none"]

\* the session of the scenario, a server without tools, the failed startups
SessionServers ==
    {Server(SessionCatalog), Server(ResourceCatalog)}
        \cup {srv \in Servers : srv.failAt # "none"}
Init == InitOf(SessionServers, {FALSE})
SessionEnv == Env(MaxDispatch, MaxLog, SessionTexts, {"ok", "err"}, FALSE)
Next ==
    \/ ToolNext(SessionEnv)
    \/ \E c \in cmds : RunReadResource(c, SessionEnv)
Spec == Init /\ [][Next]_vars

\* a user who types nothing and submits twice
PairEnv == Env(PairDispatch, PairLog, {<<>>}, {"ok", "err"}, FALSE)
NextPair ==
    \/ ToolNext(PairEnv)
    \/ \E c \in cmds : RunReadResource(c, PairEnv)
SpecPair == InitOf({Server(SessionCatalog)}, {FALSE}) /\ [][NextPair]_vars

\* SpecRace: the same user, with the logf of callToolCmd taken in the two
\* steps the goroutine makes of m.log = append(m.log, ...): Update runs on
\* the goroutine of the runtime and the commands on goroutines of their own,
\* and nothing orders their accesses to m.log.

\* the goroutine of c has gathered the arguments and reads m.log, the operand
\* of append (commands whose only logf is that of the call)
LogfRead(c, lim) ==
    /\ Alive
    /\ c.kind = "callToolCmd"
    /\ \E outcome \in lim.outcomes :
          \E r \in {callToolCmd(m, c.id, outcome)} :
             /\ ~r.panic
             /\ Len(r.m.log) = Len(m.log) + 1
             /\ appending' = appending \cup
                    {[id |-> c.id, len |-> Len(m.log),
                      entry |-> r.m.log[Len(r.m.log)], msgs |-> r.msgs]}
    /\ cmds' = cmds \ {c}
    /\ UNCHANGED <<verbose, m, fetched, msgs, nextId, phase>>

\* the goroutine assigns m.log: what it had read and its entry. It goes on
\* to the remote call and returns its message. (Followed while m.log is no
\* shorter than what the goroutine read.)
LogfWrite(a, lim) ==
    /\ Alive
    /\ a.len <= Len(m.log)
    /\ LET lg == Append(SubSeq(m.log, 1, a.len), a.entry)
           m1 == [m EXCEPT !.log = lg, !.debugViewport = GotoBottom(@, lg)]
       IN  /\ WithinBounds(m1, lim)
           /\ m' = m1
    /\ msgs' = msgs \cup a.msgs
    /\ appending' = appending \ {a}
    /\ UNCHANGED <<verbose, fetched, cmds, nextId, phase>>

NextRace ==
    \/ NextPair
    \/ \E c \in cmds : LogfRead(c, PairEnv)
    \/ \E a \in appending : LogfWrite(a, PairEnv)
SpecRace == InitOf({Server(SessionCatalog)}, {FALSE}) /\ [][NextRace]_vars

-----------------------------------------------------------------------------
(* SpecCoerce: callToolCmd on the submitted form of a tool, for every      *)
(* choice of texts of its fields. The initial states are the states the    *)
(* program is in after the user selected the tool, typed the texts and     *)
(* pressed Enter on the last field.                                        *)

\* the model Update returns for a key that builds no form
AfterKey(model, k) == Update(model, KeyMsg(k), <<>>).m

\* Update for the keys of a text, one after the other
RECURSIVE TypeText(_, _)
TypeText(model, text) ==
    IF text = <<>> THEN model
    ELSE CHOOSE r \in {TypeText(next, Tail(text)) : next \in {AfterKey(model, Head(text))}} :
             TRUE

\* the form filled from field i on: the text, then Enter, up to the last field
RECURSIVE FillFrom(_, _, _)
FillFrom(model, texts, i) ==
    CHOOSE r \in {IF i = Len(texts) THEN typed
                  ELSE FillFrom(AfterKey(typed, "enter"), texts, i + 1) :
                  typed \in {TypeText(model, texts[i])}} : TRUE

\* the first tool selected and its form filled with the texts
FilledForm(srv, order, texts) ==
    CHOOSE r \in {FillFrom(form, texts, 1) :
                  form \in {Update(initialModel(srv), KeyMsg("enter"), order).m}} : TRUE

CoerceServers == {Server(TypedCatalog), Server(AddCatalog), Server(EchoCatalog)}

InitCoerce ==
    /\ verbose = FALSE
    /\ \E srv \in CoerceServers :
      \E order \in MapOrders(PropNames(srv.catalog.tools[1])) :
        \E texts \in [1..Len(order) -> CoerceTexts] :
          \E r \in {Update(FilledForm(srv, order, texts), KeyMsg("enter"), <<>>)} :
            /\ ~r.panic
            /\ m = r.m
            /\ fetched = initialFetches(srv)
            /\ cmds = {Cmd(1, r.cmd, argumentInputView)}
            /\ msgs = {}
            /\ nextId = 1
            /\ phase = "running"
            /\ appending = {}

CoerceEnv == Env(1, MaxLog + 2, CoerceTexts, CallOutcomes, FALSE)
NextCoerce ==
    \/ \E c \in cmds : RunCallTool(c, CoerceEnv)
    \/ \E msg \in msgs : Deliver(msg, CoerceEnv)
SpecCoerce == InitCoerce /\ [][NextCoerce]_vars

-----------------------------------------------------------------------------
(* Properties of the tool views                                            *)

\* the commands a step adds to the pending ones
Dispatched == cmds' \ cmds

\* the step is Update for Enter in the tool list, main panel focused, with a
\* tool under the cursor
SelectsTool ==
    /\ Alive
    /\ m.focusedPanel = mainPanelFocus
    /\ m.state = toolSelectionView
    /\ m.tools # <<>>
    /\ KeyPress("enter", SessionEnv)

\* the tool under the cursor of the tool list
Highlighted == m.tools[m.toolList]

\* the parameters a tool declares
Parameters(tool) == IF tool.InputSchema.nil THEN {} ELSE PropNames(tool)

\* q holds its strings in strictly increasing lexicographic order
IsSorted(q) == \A i, j \in DOMAIN q : i < j => LexLess(q[i], q[j])

\* C1: when the outcome of a tool invocation arrives without an error, the
\* controller moves to the result display view.
C1_OutcomeShowsResultView ==
    [][\A msg \in msgs :
          (msg.type = "toolResult" /\ msg.err = NoErr /\ Deliver(msg, SessionEnv))
              => m'.state = resultView]_vars

\* C2: Enter in the tool list on a tool without parameters (no schema, or a
\* schema without properties) dispatches exactly one callToolCmd, stays in the
\* tool list and builds no fields; the command running does not change the view.
C2_NoParametersDispatchesAtOnce ==
    [][/\ (SelectsTool /\ Parameters(Highlighted) = {}) =>
              /\ phase' = "running"
              /\ cmds \subseteq cmds'
              /\ Cardinality(Dispatched) = 1
              /\ \A c \in Dispatched : c.kind = "callToolCmd"
              /\ m'.selectedTool = m.toolList
              /\ m'.state = toolSelectionView
              /\ m'.argInputs = m.argInputs
              /\ m'.argOrder = m.argOrder
       /\ \A c \in cmds :
              (RunCallTool(c, SessionEnv) /\ phase' = "running") => m'.state = m.state
      ]_vars

\* a tool without a schema was called from the list and its command is pending
C2_Witness_NoSchema ==
    /\ m.state = toolSelectionView
    /\ m.selectedTool # 0
    /\ m.tools[m.selectedTool].InputSchema.nil
    /\ m.argInputs = <<>>
    /\ \E c \in cmds : c.kind = "callToolCmd" /\ c.view = toolSelectionView

\* C3: Enter in the tool list on a tool with parameters enters the argument
\* view with fresh fields, every text empty, and the focus index at 0, on every
\* entry of the session.
C3_FormStartsAtFirstField ==
    [][(SelectsTool /\ Parameters(Highlighted) # {}) =>
          /\ m'.state = argumentInputView
          /\ \A i \in DOMAIN m'.argInputs : m'.argInputs[i].value = <<>>
          /\ m'.argFocus = 0]_vars

\* C4: the fields built on selection are as many as the tool's parameters and
\* in the lexicographic order of their names, whatever order the map yields
\* them in; no step taken in the argument view changes their number or order.
C4_FieldsSortedAndFixed ==
    [][/\ (SelectsTool /\ Parameters(Highlighted) # {}) =>
              /\ Len(m'.argInputs) = Cardinality(Parameters(Highlighted))
              /\ Len(m'.argOrder) = Cardinality(Parameters(Highlighted))
              /\ Range(m'.argOrder) = Parameters(Highlighted)
              /\ IsSorted(m'.argOrder)
       /\ (m.state = argumentInputView /\ m'.state = argumentInputView
              /\ phase = "running" /\ phase' = "running") =>
              /\ Len(m'.argInputs) = Len(m.argInputs)
              /\ m'.argOrder = m.argOrder
      ]_vars

\* the form of add is being filled: a text was typed into its second field
C4_Witness_FormInUse ==
    /\ m.state = argumentInputView
    /\ m.argOrder = <<<<"a">>, <<"b">>>>
    /\ Len(m.argInputs) = 2
    /\ m.argInputs[2].value # <<>>

\* the step is Update for Enter in the argument view, main panel focused, on
\* the last field
SubmitsForm ==
    /\ Alive
    /\ m.focusedPanel = mainPanelFocus
    /\ m.state = argumentInputView
    /\ m.argInputs # <<>>
    /\ m.argFocus = Len(m.argInputs) - 1
    /\ KeyPress("enter", SessionEnv)

\* what the command sends when it runs in the state the step leaves
SentNext == callToolCmd(m', nextId', "ok")

\* C5: Enter on the last field dispatches one callToolCmd for the selected
\* tool, which sends the texts the fields hold, and changes neither the texts
\* nor the order of the fields.
C5_LastFieldDispatches ==
    [][SubmitsForm =>
          /\ phase' = "running"
          /\ cmds \subseteq cmds'
          /\ Cardinality(Dispatched) = 1
          /\ \A c \in Dispatched : c.kind = "callToolCmd"
          /\ m'.selectedTool = m.selectedTool
          /\ m'.argInputs = m.argInputs
          /\ m'.argOrder = m.argOrder
          /\ ~SentNext.panic
          /\ \A msg \in SentNext.msgs :
                /\ msg.req.method = "tools/call"
                /\ msg.req.name = m.tools[m.selectedTool].Name
                /\ MapKeys(msg.req.args) \subseteq Range(m.argOrder)
                /\ \A i \in DOMAIN m.argInputs :
                      m.argInputs[i].value # <<>> => MapHas(msg.req.args, m.argOrder[i])
      ]_vars

\* the filled form of add was submitted and its command is pending
C5_Witness_Submitted ==
    /\ m.state = argumentInputView
    /\ m.argFocus = Len(m.argInputs) - 1
    /\ \A i \in DOMAIN m.argInputs : m.argInputs[i].value # <<>>
    /\ \E c \in cmds : c.kind = "callToolCmd" /\ c.view = argumentInputView

-----------------------------------------------------------------------------
(* Properties of the argument mapping, under SpecCoerce: the fields keep   *)
(* the texts of the submitted form while the command runs                  *)

\* the name, the text and the declared type of field i of the form
FieldName(i) == m.argOrder[i]
FieldText(i) == m.argInputs[i].value
FieldType(i) ==
    LET tool == m.tools[m.selectedTool]
    IN  IF HasProp(tool, FieldName(i)) THEN PropType(tool, FieldName(i)) ELSE ""

TypedKinds == {"number", "integer", "boolean"}

\* the requests the commands have sent and Update has not yet been told of
SentCalls == {msg.req : msg \in {x \in msgs : x.type = "toolResult"}}

\* the text is not empty and does not parse under the type
Unparsable(ty, text) ==
    /\ text # <<>>
    /\ \/ ty = "number" /\ ~ParseFloatOk(text)
       \/ ty = "integer" /\ ~AtoiOk(text)
       \/ ty = "boolean" /\ ~ParseBoolOk(text)

\* C6: a number or integer field left empty is sent as 0 under its name, an
\* empty boolean field as false: the key is in the mapping.
C6_EmptyFieldSendsDefault ==
    \A req \in SentCalls : \A i \in DOMAIN m.argOrder :
        (FieldText(i) = <<>> /\ FieldType(i) \in TypedKinds) =>
            /\ MapHas(req.args, FieldName(i))
            /\ LET v == MapGet(req.args, FieldName(i))
               IN  IF FieldType(i) = "boolean" THEN v = BoolValue(FALSE)
                   ELSE v \in {IntValue(0), FloatValue(0)}

\* C7: a field whose text parses under its declared type is sent as the parsed
\* value under its name: integer "42" as 42, add with a = "3" and b = "4" as
\* exactly {a: 3.0, b: 4.0}; a string or a type not declared is sent as typed.
C7_ParsedValuesSent ==
    \A req \in SentCalls :
        /\ \A i \in DOMAIN m.argOrder :
             LET ty == FieldType(i)
                 text == FieldText(i)
                 sent == MapGet(req.args, FieldName(i))
             IN  /\ (ty = "number" /\ text # <<>> /\ ParseFloatOk(text)) =>
                        MapHas(req.args, FieldName(i)) /\ sent = FloatValue(ParseFloat(text))
                 /\ (ty = "integer" /\ text # <<>> /\ AtoiOk(text)) =>
                        MapHas(req.args, FieldName(i)) /\ sent = IntValue(Atoi(text))
                 /\ (ty = "integer" /\ text = <<"4", "2">>) => sent = IntValue(42)
                 /\ (ty = "boolean" /\ text # <<>> /\ ParseBoolOk(text)) =>
                        MapHas(req.args, FieldName(i)) /\ sent = BoolValue(ParseBool(text))
                 /\ (ty = "boolean" /\ text = <<"t">>) => sent = BoolValue(TRUE)
                 /\ ty \notin TypedKinds =>
                        MapHas(req.args, FieldName(i)) /\ sent = StringValue(text)
        /\ (req.name = "add" /\ m.argInputs = <<[value |-> <<"3">>, focus |-> FALSE],
                                                [value |-> <<"4">>, focus |-> TRUE]>>) =>
               req.args = {[name |-> <<"a">>, val |-> FloatValue(3)],
                           [name |-> <<"b">>, val |-> FloatValue(4)]}

\* add was called with {a: 3.0, b: 4.0}
C7_Witness_AddSent ==
    \E req \in SentCalls :
        /\ req.name = "add"
        /\ req.args = {[name |-> <<"a">>, val |-> FloatValue(3)],
                       [name |-> <<"b">>, val |-> FloatValue(4)]}

\* C8: a text that does not parse under its declared type neither blocks the
\* dispatch nor aborts the call: the command is dispatched, it logs a
\* conversion error for the field, and it issues the call.
C8_CoercionFailureLoggedCallIssued ==
    /\ phase = "running"
    /\ \A c \in cmds : c.kind = "callToolCmd"
    /\ \A req \in SentCalls : req.method = "tools/call"
    /\ cmds = {} =>
           /\ \E e \in Range(m.log) : e.kind = "Calling tool"
           /\ msgs # {} \/ m.result # NoResult \/ m.err # NoErr
           /\ \A i \in DOMAIN m.argOrder :
                  Unparsable(FieldType(i), FieldText(i)) =>
                      ConvertErrorEntry(FieldName(i), FieldType(i)) \in Range(m.log)

\* the call went out with a text in an integer field that is no integer
C8_Witness_UnparsableSent ==
    \E req \in SentCalls : \E i \in DOMAIN m.argOrder :
        /\ FieldType(i) = "integer"
        /\ FieldText(i) = <<"a", "b", "c">>
        /\ MapHas(req.args, FieldName(i))
        /\ ConvertErrorEntry(FieldName(i), "integer") \in Range(m.log)

-----------------------------------------------------------------------------
(* Properties of the commands                                              *)

\* C9: every command that runs, callToolCmd or readResourceCmd, hands the
\* runtime exactly one message, whatever happens inside it.
C9_OneOutcomePerJob ==
    [][\A c \in cmds :
          (RunCallTool(c, SessionEnv) \/ RunReadResource(c, SessionEnv)) =>
              /\ c \notin cmds'
              /\ msgs \subseteq msgs'
              /\ Cardinality(msgs' \ msgs) = 1
              /\ \A msg \in msgs' \ msgs : msg.id = c.id]_vars

\* C10: no two commands dispatched from the same view for the same kind of
\* request are pending together.
C10_OneJobPerView ==
    \A c1, c2 \in cmds : (c1.view = c2.view /\ c1.kind = c2.kind) => c1 = c2

-----------------------------------------------------------------------------
(* Properties of what a command shares with Update                         *)

\* C11: a command that runs shares nothing with Update but its message: it
\* writes no field of the model, the log and the pane's offset included.
C11_JobLeavesModelAlone ==
    [][\A c \in cmds :
          (/\ RunCallTool(c, SessionEnv) \/ RunReadResource(c, SessionEnv)
           /\ phase' = "running")
              => m' = m]_vars

-----------------------------------------------------------------------------
(* Properties of the error condition                                       *)

\* one of the listings of initialModel failed
StartupFailed == \E i \in DOMAIN fetched : fetched[i].failed

\* C12: a command that resolves with an error leaves the session interactive:
\* with the listings fetched, the frame keeps showing the panes, never the
\* error page of the failed startup.
C12_CallFailureKeepsPanes ==
    (Alive /\ ~StartupFailed) => View(m).error = NoErr

\* C13: a resource read that fails gives a resourceResult with an error; when
\* Update receives it the view stays as it is (the resource detail view), the
\* frame shows the error text and the program keeps running.
C13_ReadFailureShown ==
    [][/\ \A c \in cmds :
              RunReadResource(c, SessionEnv) =>
                  /\ phase' = "running"
                  /\ Cardinality(msgs' \ msgs) = 1
                  /\ \A msg \in msgs' \ msgs :
                        /\ msg.type = "resourceResult"
                        /\ msg.err = NoErr \/ msg.err = "resources/read failed"
       /\ \A msg \in msgs :
              (msg.type = "resourceResult" /\ msg.err # NoErr /\ Deliver(msg, SessionEnv)) =>
                  /\ phase' = "running"
                  /\ m'.state = m.state
                  /\ m'.resourceResult = m.resourceResult
                  /\ View(m').error = msg.err
                  /\ cmds' = cmds
      ]_vars

\* the read of the selected resource failed and its detail view is the view
C13_Witness_ReadFailed ==
    /\ Alive
    /\ m.state = resourceDetailView
    /\ m.selectedResource # 0
    /\ m.err = "resources/read failed"
    /\ msgs = {}

\* the view, the focus and the selections of a model
Navigation(model) ==
    <<model.state, model.focusedPanel, model.toolList, model.resourceList,
      model.promptList, model.selectedTool, model.selectedResource>>

\* C14: after a failed startup no key but ctrl+c changes the view, the focus
\* or a selection, dispatches a command or crashes the program.
C14_FailedStartupOnlyQuits ==
    [][\A k \in Keys \ {"ctrl+c"} :
          (StartupFailed /\ KeyPress(k, SessionEnv)) =>
              /\ phase' = "running"
              /\ cmds' = cmds
              /\ Navigation(m') = Navigation(m)]_vars

\* the listing that failed and the error initialModel returned for it
FailedListing == fetched[Len(fetched)].listing
StartupError ==
    IF FailedListing = "tools" THEN "tools/list failed"
    ELSE IF FailedListing = "prompts" THEN "prompts/list failed"
    ELSE "resources/list failed"

\* C15: after a failed startup every frame shows the failure message: no
\* event clears the error, and no listing is fetched again.
C15_FailureAlwaysShown ==
    /\ []((Alive /\ StartupFailed) => View(m).error = StartupError)
    /\ [][fetched' = fetched]_vars

\* after a failed startup keys were pressed that changed the view and the focus
C15_Witness_KeysAfterFailure ==
    /\ Alive
    /\ StartupFailed
    /\ m.state = resourceListView
    /\ m.focusedPanel = debugPanelFocus
    /\ View(m).error = "prompts/list failed"

-----------------------------------------------------------------------------
(* Properties of the global keys and of the argument view                  *)

\* the step is Update for the Esc key
PressesEsc == Alive /\ KeyPress("esc", SessionEnv)

\* C16: Esc, whichever panel has the focus, sets the view to the resource list
\* from the resource detail view and to the tool list from every other view;
\* it dispatches nothing and leaves the focused panel as it is.
C16_EscReturns ==
    [][PressesEsc =>
          /\ phase' = "running"
          /\ m'.state = IF m.state = resourceDetailView THEN resourceListView
                        ELSE toolSelectionView
          /\ m'.focusedPanel = m.focusedPanel
          /\ cmds' = cmds]_vars

\* Esc was pressed in the detail view of a resource with the debug panel focused
C16_Witness_BackToResources ==
    /\ Alive
    /\ m.state = resourceListView
    /\ m.selectedResource # 0
    /\ m.focusedPanel = debugPanelFocus
    /\ cmds # {}

\* the argument view is the view, with fields, and the main panel is focused
InForm ==
    /\ Alive
    /\ m.focusedPanel = mainPanelFocus
    /\ m.state = argumentInputView
    /\ m.argInputs # <<>>

\* C17: in the argument view Tab moves the field focus to the next field and
\* wraps from the last field to the first.
C17_TabCyclesFields ==
    [][(InForm /\ KeyPress("tab", SessionEnv)) =>
          m'.argFocus = (m.argFocus + 1) % Len(m.argInputs)]_vars

\* the step is Update for Enter in the argument view on a field before the last
AdvancesField ==
    /\ InForm
    /\ m.argFocus < Len(m.argInputs) - 1
    /\ KeyPress("enter", SessionEnv)

\* the fields of a model whose focus flag is set, by index from 0
FocusedFields(model) == {i - 1 : i \in {j \in DOMAIN model.argInputs : model.argInputs[j].focus}}

\* C18: Enter on a field that is not the last moves the focus to the next field
\* without wrapping, leaves that field the only focused one and dispatches
\* nothing.
C18_EnterAdvances ==
    [][AdvancesField =>
          /\ phase' = "running"
          /\ m'.state = argumentInputView
          /\ m'.argFocus = m.argFocus + 1
          /\ FocusedFields(m') = {m.argFocus + 1}
          /\ [i \in DOMAIN m'.argInputs |-> m'.argInputs[i].value]
                 = [i \in DOMAIN m.argInputs |-> m.argInputs[i].value]
          /\ cmds' = cmds]_vars

\* Enter was pressed on the first field of add after a text was typed into it
C18_Witness_SecondField ==
    /\ InForm
    /\ m.argFocus = 1
    /\ FocusedFields(m) = {1}
    /\ m.argInputs[1].value # <<>>
    /\ m.argInputs[2].value = <<>>

\* C19: whenever the argument view is the view and the main panel is focused,
\* at most one field has its focus flag set.
C19_OneFocusedField ==
    InForm => Cardinality(FocusedFields(m)) <= 1

\* C20: the fields are discarded when Esc leaves the argument view: neither
\* the inputs, nor the order of their names, nor the focus index remain.
C20_EscDiscardsFields ==
    [][(PressesEsc /\ m.state = argumentInputView) =>
          /\ m'.argInputs = <<>>
          /\ m'.argOrder = <<>>
          /\ m'.argFocus = 0]_vars

-----------------------------------------------------------------------------
(* SpecRead: a session with a server that lists two resources and no tool, *)
(* and a user who reads twice                                              *)

NextRead ==
    \/ \E k \in Keys : KeyPress(k, PairEnv)
    \/ \E c \in cmds : RunReadResource(c, PairEnv)
    \/ \E msg \in msgs : Deliver(msg, PairEnv)
SpecRead == InitOf({Server(ResourceCatalog)}, {FALSE}) /\ [][NextRead]_vars

\* the frame is the detail view of the selected resource
ShowsResource == Alive /\ m.err = NoErr /\ m.state = resourceDetailView

\* C21: in the resource detail view the content shown is the output of the
\* read dispatched for the selected resource; until that read has completed
\* no content is shown for it.
C21_ContentIsOfSelectedRead ==
    ShowsResource =>
        \/ View(m).body = NoResult
        \/ View(m).body.text = m.resources[m.selectedResource].URI

-----------------------------------------------------------------------------
(* Properties of results that arrive                                       *)

\* the step hands msg, the message of a command, to Update
Delivered(msg) == Alive /\ msg \in msgs /\ Deliver(msg, SessionEnv)

\* C22: a result is applied whatever the view is when it arrives: a tool
\* result is stored in result and logged, a resource result is stored in
\* resourceResult, an error in err; the view and the focused panel stay.
C22_ResultAppliedInAnyView ==
    [][\A msg \in msgs :
          Delivered(msg) =>
              /\ phase' = "running"
              /\ m'.state = m.state
              /\ m'.focusedPanel = m.focusedPanel
              /\ cmds' = cmds
              /\ msg.err # NoErr => m'.err = msg.err
              /\ (msg.err = NoErr /\ msg.type = "toolResult") =>
                     /\ m'.result = msg.result
                     /\ Len(m'.log) > Len(m.log)
                     /\ SubSeq(m'.log, 1, Len(m.log)) = m.log
                     /\ m'.log[Len(m'.log)] = ResultEntry(msg.result)
              /\ (msg.err = NoErr /\ msg.type = "resourceResult") =>
                     m'.resourceResult = msg.result]_vars

\* the result of a call made from the tool list is stored and logged while
\* the argument view is the view and the debug panel is focused
C22_Witness_ResultElsewhere ==
    /\ Alive
    /\ m.state = argumentInputView
    /\ m.focusedPanel = debugPanelFocus
    /\ m.result # NoResult
    /\ ResultEntry(m.result) \in Range(m.log)

-----------------------------------------------------------------------------
(* SpecPane: a session started with -v, with a user who also scrolls the   *)
(* diagnostic pane and resizes the terminal                                *)

PaneEnv == Env(MaxDispatch, PaneLog, SessionTexts, {"ok"}, TRUE)
NextPane ==
    \/ ToolNext(PaneEnv)
    \/ \E h \in WinHeights : WindowResize(h, PaneEnv)
SpecPane == InitOf({Server(SessionCatalog)}, {TRUE}) /\ [][NextPane]_vars

\* the step is Update for the Tab key
PressesTab == Alive /\ KeyPress("tab", PaneEnv)

\* the other panel
OtherPanel(p) == IF p = mainPanelFocus THEN debugPanelFocus ELSE mainPanelFocus

\* a model without its focused panel, its log and the pane of the log
Interaction(model) ==
    [model EXCEPT !.focusedPanel = mainPanelFocus, !.log = <<>>,
                  !.debugViewport = Viewport(0, 0)]

\* C23 as stated: Tab flips the focused panel in every view and changes
\* nothing else, so that two Tabs restore the model.
C23_TabChangesOnlyFocus ==
    [][PressesTab =>
          /\ cmds' = cmds
          /\ m' = [m EXCEPT !.focusedPanel = OtherPanel(@)]
          /\ AfterKey(AfterKey(m, "tab"), "tab") = m]_vars

\* C23 as amended: Tab flips the focused panel in every view and changes
\* neither the view nor anything else but the diagnostic log, which under -v
\* receives the Key pressed entry and is scrolled to it; two Tabs restore the
\* focused panel and all but the log and its pane.
C23_TabFlipsFocusAndLogs ==
    [][PressesTab =>
          /\ phase' = "running"
          /\ cmds' = cmds
          /\ m'.focusedPanel = OtherPanel(m.focusedPanel)
          /\ m'.state = m.state
          /\ Interaction(m') = Interaction(m)
          /\ m'.log = IF verbose THEN Append(m.log, KeyPressedEntry) ELSE m.log
          /\ m'.debugViewport =
                 IF verbose THEN GotoBottom(m.debugViewport, m'.log)
                 ELSE m.debugViewport
          /\ LET twice == AfterKey(AfterKey(m, "tab"), "tab")
             IN  /\ twice.focusedPanel = m.focusedPanel
                 /\ Interaction(twice) = Interaction(m)]_vars

\* Tab was pressed in the argument view: the debug panel is focused and the
\* key is the newest entry of the log
C23_Witness_TabInForm ==
    /\ Alive
    /\ m.state = argumentInputView
    /\ m.focusedPanel = debugPanelFocus
    /\ m.log # <<>>
    /\ m.log[Len(m.log)] = KeyPressedEntry

\* the step is Update for a key that is none of Tab, Esc and Ctrl+C, pressed
\* while the debug panel has the focus
KeyInDebugPanel ==
    /\ Alive
    /\ m.focusedPanel = debugPanelFocus
    /\ \E k \in Keys \ {"tab", "esc", "ctrl+c"} : KeyPress(k, PaneEnv)

\* C24: while the debug panel has the focus, a key other than the global ones
\* reaches only the viewport of the log: the view, the list selections, the
\* field texts and the field focus stay as they are (as does all of the model
\* but the log and its pane), the program keeps running and no command is
\* dispatched.
C24_DebugFocusKeepsView ==
    [][KeyInDebugPanel =>
          /\ phase' = "running"
          /\ cmds' = cmds
          /\ nextId' = nextId
          /\ m'.focusedPanel = debugPanelFocus
          /\ m'.state = m.state
          /\ m'.toolList = m.toolList
          /\ m'.resourceList = m.resourceList
          /\ m'.promptList = m.promptList
          /\ m'.argInputs = m.argInputs
          /\ m'.argFocus = m.argFocus
          /\ Interaction(m') = Interaction(m)]_vars

\* the user is in a form with the debug panel focused and has scrolled the
\* log up from its newest entry
C24_Witness_ScrolledInForm ==
    /\ Alive
    /\ m.state = argumentInputView
    /\ m.focusedPanel = debugPanelFocus
    /\ m.debugViewport.YOffset < Max(0, TotalLines(m.log) - m.debugViewport.Height)

\* the step is Update for Enter on an item of the resource list
SelectsResource ==
    /\ Alive
    /\ m.state = resourceListView
    /\ m.focusedPanel = mainPanelFocus
    /\ m.resources # <<>>
    /\ KeyPress("enter", PairEnv)

\* C25: Enter on a resource of the list, with the main panel focused, makes
\* the resource under the cursor the selected one, shows the detail view, and
\* dispatches exactly one command, a readResourceCmd, which asks the server
\* for the URI of that resource.
C25_SelectDispatchesRead ==
    [][SelectsResource =>
          /\ phase' = "running"
          /\ m'.selectedResource = m.resourceList
          /\ m'.state = resourceDetailView
          /\ Cardinality(cmds' \ cmds) = 1
          /\ cmds \subseteq cmds'
          /\ \A c \in cmds' \ cmds :
                /\ c.kind = "readResourceCmd"
                /\ \A o \in ReadOutcomes :
                      \A msg \in readResourceCmd(m', c.id, o).msgs :
                         /\ msg.req.method = "resources/read"
                         /\ msg.req.name = m.resources[m.resourceList].URI]_vars

\* the second resource of the list was selected and its read is on its way
C25_Witness_SecondResourceRead ==
    /\ Alive
    /\ m.state = resourceDetailView
    /\ m.selectedResource = 2
    /\ \E c \in cmds : c.kind = "readResourceCmd" /\ c.view = resourceListView

\* the three list views, and the key that leads to each
BrowsingViews == {toolSelectionView, resourceListView, promptListView}
KindView(k) ==
    IF k = "t" THEN toolSelectionView
    ELSE IF k = "r" THEN resourceListView
    ELSE promptListView

\* the step is Update for the key k of another kind, pressed in a list view
\* with the main panel focused
SwitchesKind(k) ==
    /\ Alive
    /\ m.focusedPanel = mainPanelFocus
    /\ m.state \in BrowsingViews
    /\ m.state # KindView(k)
    /\ KeyPress(k, SessionEnv)

\* C26: with the main panel focused, in each of the three list views the key
\* of each of the two other kinds (t, r, p) leads to the list view of that
\* kind, which is the one rendered unless the error page is; the step
\* dispatches no command and changes neither the focused panel nor the three
\* listings.
C26_SwitchKindSymmetric ==
    [][\A k \in {"t", "r", "p"} : SwitchesKind(k) =>
          /\ phase' = "running"
          /\ m'.state = KindView(k)
          /\ m.err = NoErr => View(m').main = KindView(k)
          /\ cmds' = cmds
          /\ nextId' = nextId
          /\ m'.focusedPanel = mainPanelFocus
          /\ m'.tools = m.tools
          /\ m'.resources = m.resources
          /\ m'.prompts = m.prompts]_vars

\* the prompt list of a session that started well is on the screen
C26_Witness_PromptList ==
    /\ Alive
    /\ m.err = NoErr
    /\ m.tools # <<>>
    /\ View(m).main = promptListView
    /\ m.focusedPanel = mainPanelFocus

\* the step is Update for Ctrl+C
PressesCtrlC == Alive /\ KeyPress("ctrl+c", SessionEnv)

\* C27: in every state of a running program, whatever the view, the focused
\* panel, the error and the commands under way, Ctrl+C can be pressed, Update
\* answers it with tea.Quit, and the step ends the process.
C27_CtrlCQuits ==
    /\ [](Alive =>
            /\ ENABLED KeyPress("ctrl+c", SessionEnv)
            /\ ~Update(m, KeyMsg("ctrl+c"), <<>>).panic
            /\ Update(m, KeyMsg("ctrl+c"), <<>>).cmd = "Quit")
    /\ [][PressesCtrlC => phase' = "exited" /\ cmds' = {} /\ msgs' = {}]_vars

\* the process of a session whose startup had failed has exited
C27_Witness_ExitedFromError ==
    /\ phase = "exited"
    /\ StartupFailed

\* C28: the log is append-only: whatever step the running program takes, the
\* entries the log held before the step are still its first entries, in the
\* same order, after it.
C28_LogAppendOnly ==
    [][(Alive /\ phase' = "running") =>
          /\ Len(m'.log) >= Len(m.log)
          /\ SubSeq(m'.log, 1, Len(m.log)) = m.log]_vars

\* C29: when a command has sent its tools/call, the newest entry of the log
\* names the tool and the arguments of that request; and when the result of a
\* successful call reaches Update, the log holds the entry of its request,
\* and after it, as the newest entry, the result.
C29_CallLoggedBeforeResult ==
    [][(Alive /\ phase' = "running") =>
          /\ \A msg \in msgs' \ msgs :
                msg.type = "toolResult" =>
                    /\ m'.log # <<>>
                    /\ m'.log[Len(m'.log)] = CallingToolEntry(msg.req.name, msg.req.args)
          /\ \A msg \in msgs \ msgs' :
                (msg.type = "toolResult" /\ msg.err = NoErr) =>
                    /\ m'.log # <<>>
                    /\ m'.log[Len(m'.log)] = ResultEntry(msg.result)
                    /\ \E i \in 1..(Len(m'.log) - 1) :
                          m'.log[i] = CallingToolEntry(msg.req.name, msg.req.args)]_vars

\* C30: the three listings are fetched at most once each, by initialModel,
\* none is fetched afterwards, and no step of the running program (a key, a
\* resize, a command, a result) changes m.tools, m.resources or m.prompts.
C30_CatalogFetchedOnce ==
    /\ [](\A i, j \in DOMAIN fetched :
             fetched[i].listing = fetched[j].listing => i = j)
    /\ [][/\ fetched' = fetched
          /\ (Alive /\ phase' = "running") =>
                /\ m'.tools = m.tools
                /\ m'.resources = m.resources
                /\ m'.prompts = m.prompts]_vars

\* a tool was called, its result has arrived and the user is back in the
\* tool list: the three listings fetched at startup are those of the lists
C30_Witness_BackWithResult ==
    /\ Alive
    /\ Len(fetched) = 3
    /\ ~StartupFailed
    /\ m.state = toolSelectionView
    /\ m.result # NoResult
    /\ m.tools = SessionCatalog.tools
    /\ m.resources = SessionCatalog.resources
    /\ m.prompts = SessionCatalog.prompts

\* SpecForms: the session of a server whose tools have forms of two lengths
SpecForms == InitOf({Server(FormsCatalog)}, {FALSE}) /\ [][ToolNext(SessionEnv)]_vars

-----------------------------------------------------------------------------
(* Properties of navigation, of what a command sends, and of startup       *)

\* C31: Esc returns to the previous view: whenever a key other than Esc
\* takes the program from the view it is in to another view, Esc pressed
\* there brings the first view back.
C31_EscReturnsToPrevious ==
    Alive =>
        \A k \in Keys \ {"esc"} : \A order \in Orders(m, k) :
            LET r == Update(m, KeyMsg(k), order)
            IN  (~r.panic /\ r.m.state # m.state) =>
                    AfterKey(r.m, "esc").state = m.state

\* C32: a session whose three listings were fetched starts in the tool list
\* with the main panel focused, no tool selected, no fields, no result, no
\* error, an empty log, and no command dispatched or under way; and as long
\* as no command has been dispatched none is under way.
C32_StartsInToolList ==
    /\ ~StartupFailed =>
          /\ phase = "running"
          /\ m.state = toolSelectionView
          /\ View(m).main = toolSelectionView
          /\ m.focusedPanel = mainPanelFocus
          /\ m.selectedTool = 0
          /\ m.argInputs = <<>>
          /\ m.argOrder = <<>>
          /\ m.log = <<>>
          /\ m.err = NoErr
          /\ m.result = NoResult
          /\ nextId = 0
          /\ cmds = {}
          /\ msgs = {}
    /\ [](nextId = 0 => cmds = {} /\ msgs = {})

\* the session of a server with tools, before any key
C32_Witness_FreshSession ==
    /\ Alive
    /\ ~StartupFailed
    /\ m.tools = SessionCatalog.tools
    /\ m.state = toolSelectionView
    /\ m.log = <<>>
    /\ nextId = 0

\* the tool of the session with the given name
ToolNamed(name) == CHOOSE t \in Range(m.tools) : t.Name = name

\* C33: a callToolCmd that runs does not crash, and the arguments of the
\* request it sends hold only names the tool it calls declares: none for a
\* tool without parameters, whatever form was filled before.
C33_OnlyDeclaredNamesSent ==
    [][\A c \in cmds :
          RunCallTool(c, SessionEnv) =>
              /\ phase' = "running"
              /\ \A msg \in msgs' \ msgs :
                    \A a \in msg.req.args :
                       a.name \in Parameters(ToolNamed(msg.req.name))]_vars

\* C34: whenever the argument view is the view, argFocus is an index of
\* argInputs (0 <= argFocus < len(argInputs)).
C34_FieldFocusValid ==
    (Alive /\ m.state = argumentInputView) =>
        /\ 0 <= m.argFocus
        /\ m.argFocus < Len(m.argInputs)

\* what the command would send, or that it would crash, were it run on the model
WouldSend(model, c) ==
    LET r == IF c.kind = "callToolCmd" THEN callToolCmd(model, c.id, "ok")
             ELSE readResourceCmd(model, c.id, "ok")
    IN  [panic |-> r.panic, reqs |-> {msg.req : msg \in r.msgs}]

\* C35: what a command sends is fixed when it is dispatched: no key handled
\* while the command waits to run changes the request it will send (the tool
\* and its arguments, the URI of the resource).
C35_RequestFixedAtDispatch ==
    [][\A k \in Keys :
          (Alive /\ KeyPress(k, SessionEnv) /\ phase' = "running") =>
              \A c \in cmds : WouldSend(m', c) = WouldSend(m, c)]_vars

\* the step is Update for Enter in a list view without items, main panel focused
EnterOnEmptyList ==
    /\ Alive
    /\ m.focusedPanel = mainPanelFocus
    /\ \/ m.state = toolSelectionView /\ m.tools = <<>>
       \/ m.state = resourceListView /\ m.resources = <<>>
    /\ KeyPress("enter", SessionEnv)

\* C36: Enter in the tool list of a server without tools, or in the resource
\* list of a server without resources, does nothing: the program keeps
\* running, no command is dispatched and the view stays.
C36_EnterOnEmptyListNoOp ==
    [][EnterOnEmptyList =>
          /\ phase' = "running"
          /\ cmds' = cmds
          /\ m'.state = m.state]_vars

GoTypeOf(ty) ==
    IF ty = "number" THEN "float64"
    ELSE IF ty = "integer" THEN "int"
    ELSE "bool"

\* C38: every value sent for a parameter declared number, integer or boolean
\* has the declared type: a float64, an int, a bool, whatever text the field
\* held.
C38_SentValuesHaveDeclaredType ==
    \A req \in SentCalls : \A a \in req.args :
        LET tool == ToolNamed(req.name)
        IN  (HasProp(tool, a.name) /\ PropType(tool, a.name) \in TypedKinds) =>
                a.val.t = GoTypeOf(PropType(tool, a.name))

\* the text of the field of the submitted form with the given name
TextOf(name) == m.argInputs[CHOOSE i \in DOMAIN m.argOrder : m.argOrder[i] = name].value

\* C38 as amended: a value sent for a parameter declared number, integer or
\* boolean has the declared type when the text of the field parses; when it
\* does not parse, the text itself is sent, as a string, and the conversion
\* error is in the log.
C38_SentValuesTypedOrRawText ==
    \A req \in SentCalls : \A a \in req.args :
        LET tool == ToolNamed(req.name)
            ty == PropType(tool, a.name)
        IN  (HasProp(tool, a.name) /\ ty \in TypedKinds) =>
                IF Unparsable(ty, TextOf(a.name))
                THEN /\ a.val = StringValue(TextOf(a.name))
                     /\ ConvertErrorEntry(a.name, ty) \in Range(m.log)
                ELSE a.val.t = GoTypeOf(ty)

\* conv was called with 3 in its integer and in its boolean field: the
\* integer is sent as 3, the boolean as the text "3"
C38_Witness_MixedSent ==
    \E req \in SentCalls :
        /\ req.name = "conv"
        /\ MapHas(req.args, <<"n">>)
        /\ MapGet(req.args, <<"n">>) = IntValue(3)
        /\ MapHas(req.args, <<"o", "n">>)
        /\ MapGet(req.args, <<"o", "n">>) = StringValue(<<"3">>)

\* the listings in the order initialModel requests them
ListingOrder == <<"tools", "prompts", "resources">>

\* C39: the listings are requested in the order tools, prompts, resources,
\* up to the first that fails; if one fails the model holds the error of that
\* listing and nothing else, so that every frame is the error page, and only
\* when all three succeed does the model hold the listings and show the lists.
C39_AnyListingFailureHalts ==
    Alive =>
        /\ Len(fetched) \in 1..3
        /\ \A i \in DOMAIN fetched :
              /\ fetched[i].listing = ListingOrder[i]
              /\ fetched[i].failed => i = Len(fetched)
        /\ IF StartupFailed
           THEN /\ m.err = StartupError
                /\ View(m).error = StartupError
                /\ View(m).main = ""
                /\ m.tools = <<>>
                /\ m.prompts = <<>>
                /\ m.resources = <<>>
           ELSE /\ Len(fetched) = 3
                /\ \E srv \in Servers :
                      /\ srv.failAt = "none"
                      /\ m.tools = srv.catalog.tools
                      /\ m.prompts = srv.catalog.prompts
                      /\ m.resources = srv.catalog.resources

\* the listing of the resources, the last of the three, failed: the error
\* page is shown and the tools and prompts already listed are not kept
C39_Witness_ResourcesFailed ==
    /\ Alive
    /\ Len(fetched) = 3
    /\ fetched[3].failed
    /\ View(m).error = "resources/list failed"
    /\ m.tools = <<>>

====
